---- MODULE Spec2Model ----
(***************************************************************************)
(* Model of the Streamlit dashboard src/main.py: the three cached API      *)
(* client functions, the render function main_dashboard, the session       *)
(* state holding the selected device, and the blocking auto-refresh loop   *)
(* with its refresh counter and periodic cache clear.                      *)
(*                                                                         *)
(* Time is counted in whole seconds.  Coordinates are counted in units of  *)
(* 0.0005 degrees, so the 0.001 degree tolerance of the click resolver is  *)
(* 2 units.  Averages are counted in tenths.                                *)
(***************************************************************************)
EXTENDS Integers, Sequences, FiniteSets, TLC

\* ---------------------------------------------------------------- values
\* Python's None for st.session_state.selected_raspberry (device ids are >= 0).
None == -1
\* 'selected_raspberry' not in st.session_state.
NoKey == -2
\* A key that a statistics mapping does not hold.
Missing == -1

\* ------------------------------------------------------------- constants
\* @st.cache_data(ttl=...) of the three functions, in seconds.
TTL_LOCATIONS == 10
TTL_IMAGES == 5
TTL_STATISTICS == 15
\* requests.get(..., timeout=5)
TIMEOUT == 5
\* time.sleep(10)
SLEEP_SECONDS == 10
\* counter % 10
CLEAR_EVERY == 10
\* 0.001 degrees, in units of 0.0005 degrees.
TOLERANCE == 2

\* ---------------------------------------------------------------- bounds
\* Longest device list the API answers with.
MaxDevices == 2
\* Cap of the refresh counter in the cache specification.
MaxCounter == 21
\* Cap of the refresh counter in the view specification.
MaxViewCounter == 1

\* ------------------------------------------------------- API fixtures
Device(id, loc, lat, lng, st, td) ==
    [raspberry_id |-> id, location |-> loc, latitude |-> lat, longitude |-> lng,
     status |-> st, total_detections |-> td]

\* Devices 0 and 1 lie within the tolerance of each other; device 2 is far.
DevicePool ==
    { Device(0, "Miraflores", 0, 0, "online", 0),
      Device(1, "San Isidro", 1, 0, "online", 2),
      Device(2, "Surco", 6, 6, "offline", 1) }

Ids == {d.raspberry_id : d \in DevicePool}

\* Device lists with unique identifiers, of length 0..n.
DeviceLists(n) ==
    UNION { { s \in [1..k -> DevicePool] :
                \A i, j \in 1..k : i # j => s[i].raspberry_id # s[j].raspberry_id }
            : k \in 0..n }

EmptyStats ==
    [total_detections |-> Missing, avg_temperature |-> Missing, avg_humidity |-> Missing]

FullStats == [total_detections |-> 97, avg_temperature |-> 267, avg_humidity |-> 664]

\* Bodies of a 200 answer of /api/statistics and /api/raspberry-images.
StatsBodies == { FullStats }

ImageBodies == { <<451, 450>> }

\* What a GET can end in: 200 with a usable body, another status, an exception
\* of requests.get (connection error, timeout), or a body that json() or the
\* field lookup rejects.
FailKinds == {"non200", "neterr", "parse"}

Responses(P, bodies, default) ==
    { [kind |-> "ok", body |-> b] : b \in bodies }
      \cup { [kind |-> k, body |-> default] : k \in P.fails }

NoClick == [some |-> FALSE, lat |-> 0, lng |-> 0]

\* last_object_clicked: nothing, or a point.
Clicks ==
    { NoClick } \cup
    { [some |-> TRUE, lat |-> p[1], lng |-> p[2]] : p \in { <<0, 0>>, <<6, 6>> } }

\* ------------------------------------------------------------ API client
\* The body of each function: the value it returns, whether it emitted st.error,
\* and whether the fetch failed (anything but a 200 with a usable body).
get_raspberry_locations(resp) ==
    IF resp.kind = "ok"
    THEN [value |-> resp.body, warned |-> FALSE, failed |-> FALSE]
    ELSE IF resp.kind = "non200"
    THEN [value |-> <<>>, warned |-> FALSE, failed |-> TRUE]
    ELSE [value |-> <<>>, warned |-> TRUE, failed |-> TRUE]

get_raspberry_images(resp) ==
    IF resp.kind = "ok"
    THEN [value |-> resp.body, warned |-> FALSE, failed |-> FALSE]
    ELSE IF resp.kind = "non200"
    THEN [value |-> <<>>, warned |-> FALSE, failed |-> TRUE]
    ELSE [value |-> <<>>, warned |-> TRUE, failed |-> TRUE]

get_statistics(resp) ==
    IF resp.kind = "ok"
    THEN [value |-> resp.body, warned |-> FALSE, failed |-> FALSE]
    ELSE IF resp.kind = "non200"
    THEN [value |-> EmptyStats, warned |-> FALSE, failed |-> TRUE]
    ELSE [value |-> EmptyStats, warned |-> TRUE, failed |-> TRUE]

\* ----------------------------------------------------------- result cache
\* One entry of st.cache_data per function and argument tuple.  `failed` records
\* whether the stored value is the fallback of a failed fetch.
NoEntry(default) == [present |-> FALSE, value |-> default, age |-> 0, failed |-> FALSE]

\* History of a cache key: the most recent call that fetched, while it is less
\* than the ttl old: the value it returned, the seconds since it returned, and
\* whether the cache was cleared since.  This is the record of no such call.
NoPrior(default) ==
    [called |-> FALSE, value |-> default, fetchSince |-> 0, cleared |-> FALSE]

\* Fresh with the request timeout counted against the ttl.
FreshShort(e, ttl) == e.present /\ e.age + TIMEOUT < ttl

\* An entry answers a call while it is younger than the function's ttl.
Fresh(e, ttl) == e.present /\ e.age < ttl

\* A call of a decorated function: the stored value on a hit; otherwise the
\* function runs and whatever it returns is stored.  `pr` is the history of the
\* key, `r` what the function body returns.
cache_data(e, pr, ttl, r, kind) ==
    IF Fresh(e, ttl)
    THEN [called |-> TRUE, value |-> e.value, requested |-> FALSE, warned |-> FALSE,
          failed |-> FALSE, kind |-> "hit", entry |-> e, before |-> pr,
          prior |-> pr]
    ELSE [called |-> TRUE, value |-> r.value, requested |-> TRUE, warned |-> r.warned,
          failed |-> r.failed, kind |-> kind,
          entry |-> [present |-> TRUE, value |-> r.value, age |-> 0, failed |-> r.failed],
          before |-> pr,
          prior |-> [called |-> TRUE, value |-> r.value,
                     fetchSince |-> 0, cleared |-> FALSE]]

\* The log of a function that a render did not call.
NotCalled(default) ==
    [called |-> FALSE, value |-> default, requested |-> FALSE, warned |-> FALSE,
     failed |-> FALSE, kind |-> "none", entry |-> NoEntry(default),
     before |-> NoPrior(default), prior |-> NoPrior(default)]

\* d seconds pass: entries age and expire; the histories age likewise.
AgeEntry(e, d, ttl, default) ==
    LET a == [e EXCEPT !.age = @ + d]
    IN  IF Fresh(a, ttl) THEN a ELSE NoEntry(default)

AgePrior(p, d, ttl, default) ==
    IF p.called /\ p.fetchSince + d < ttl
    THEN [p EXCEPT !.fetchSince = @ + d]
    ELSE NoPrior(default)

Elapse(c, d) ==
    [loc   |-> AgeEntry(c.loc, d, TTL_LOCATIONS, <<>>),
     stats |-> AgeEntry(c.stats, d, TTL_STATISTICS, EmptyStats),
     img   |-> [i \in Ids |-> AgeEntry(c.img[i], d, TTL_IMAGES, <<>>)]]

ElapsePrior(p, d) ==
    [loc   |-> AgePrior(p.loc, d, TTL_LOCATIONS, <<>>),
     stats |-> AgePrior(p.stats, d, TTL_STATISTICS, EmptyStats),
     img   |-> [i \in Ids |-> AgePrior(p.img[i], d, TTL_IMAGES, <<>>)]]

EmptyCache ==
    [loc |-> NoEntry(<<>>), stats |-> NoEntry(EmptyStats), img |-> [i \in Ids |-> NoEntry(<<>>)]]

EmptyPrior ==
    [loc |-> NoPrior(<<>>), stats |-> NoPrior(EmptyStats), img |-> [i \in Ids |-> NoPrior(<<>>)]]

\* st.cache_data.clear(): every entry goes; the histories note the clear.
MarkCleared(p) == IF p.called THEN [p EXCEPT !.cleared = TRUE] ELSE p

ClearPrior(p) ==
    [loc |-> MarkCleared(p.loc), stats |-> MarkCleared(p.stats),
     img |-> [i \in Ids |-> MarkCleared(p.img[i])]]

\* ---------------------------------------------------------- view helpers
\* Python truthiness of st.session_state.selected_raspberry.
Truthy(x) == x # None /\ x # 0

\* dict.get(key, default) on a statistics mapping.
Get(stats, key, default) == IF stats[key] = Missing THEN default ELSE stats[key]

\* The alert loop with >= in place of >.
RECURSIVE AlertsAll(_)
AlertsAll(locations) ==
    IF locations = <<>> THEN <<>>
    ELSE (IF Head(locations).total_detections >= 0
          THEN << Head(locations).location >> ELSE <<>>)
         \o AlertsAll(Tail(locations))

\* One st.error banner, carrying the location, per record of the list with
\* total_detections > 0.
RECURSIVE Alerts(_)
Alerts(locations) ==
    IF locations = <<>> THEN <<>>
    ELSE (IF Head(locations).total_detections > 0
          THEN << Head(locations).location >> ELSE <<>>)
         \o Alerts(Tail(locations))

Abs(x) == IF x < 0 THEN -x ELSE x

Near(location, clicked_lat, clicked_lng) ==
    /\ Abs(location.latitude - clicked_lat) < TOLERANCE
    /\ Abs(location.longitude - clicked_lng) < TOLERANCE

\* The scan of the list for the clicked point, without the break.
RECURSIVE ClickLoopLast(_, _, _, _)
ClickLoopLast(sel, locations, clicked_lat, clicked_lng) ==
    IF locations = <<>> THEN sel
    ELSE ClickLoopLast(IF Near(Head(locations), clicked_lat, clicked_lng)
                       THEN Head(locations).raspberry_id ELSE sel,
                       Tail(locations), clicked_lat, clicked_lng)

\* for location in locations: if near: selected = id; break
RECURSIVE ClickLoop(_, _, _, _)
ClickLoop(sel, locations, clicked_lat, clicked_lng) ==
    IF locations = <<>> THEN sel
    ELSE IF Near(Head(locations), clicked_lat, clicked_lng)
    THEN Head(locations).raspberry_id
    ELSE ClickLoop(sel, Tail(locations), clicked_lat, clicked_lng)

\* if map_data['last_object_clicked']: ... the scan
ResolveClick(sel, locations, click) ==
    IF click.some THEN ClickLoop(sel, locations, click.lat, click.lng) ELSE sel

\* next((r for r in locations if r['raspberry_id'] == selected), None)
RECURSIVE SelectedInfo(_, _)
SelectedInfo(locations, sel) ==
    IF locations = <<>> THEN None
    ELSE IF Head(locations).raspberry_id = sel THEN sel
    ELSE SelectedInfo(Tail(locations), sel)

\* The button handler without its assignment.
KeepSelection(sel) == sel

\* if st.button(...): st.session_state.selected_raspberry = None
ClearSelection(sel) == None

\* The initialisation without its membership test.
ResetSelection(sel) == None

\* if 'selected_raspberry' not in st.session_state: ... = None
InitSelection(sel) == IF sel = NoKey THEN None ELSE sel

ActiveCount(locations) ==
    Cardinality({ i \in DOMAIN locations : locations[i].status = "online" })

NoMetrics == [shown |-> FALSE, active |-> 0, total |-> 0, temp |-> 0, humidity |-> 0]

Metrics(locations, stats) ==
    [shown |-> TRUE, active |-> ActiveCount(locations),
     total |-> Get(stats, "total_detections", 0),
     temp |-> Get(stats, "avg_temperature", 0),
     humidity |-> Get(stats, "avg_humidity", 0)]

NoView ==
    [alerts |-> <<>>, notice |-> FALSE, metrics |-> NoMetrics, map |-> FALSE,
     panel |-> FALSE, gallery |-> 0, noImages |-> FALSE, button |-> FALSE, chart |-> FALSE]

\* -------------------------------------------------------- main_dashboard
\* What a render notes of one cached call.
LogOf(r) ==
    [called |-> r.called, requested |-> r.requested, warned |-> r.warned,
     failed |-> r.failed, value |-> r.value, before |-> r.before]

\* The cache keys (function, argument) whose fetch failed in a render.
FailedKeys(lg) ==
    (IF lg.loc.failed THEN { <<"locations", None>> } ELSE {})
      \cup (IF lg.stats.failed THEN { <<"statistics", None>> } ELSE {})
      \cup (IF lg.img.failed THEN { <<"images", lg.imgId>> } ELSE {})

NoLog ==
    [loc |-> LogOf(NotCalled(<<>>)), stats |-> LogOf(NotCalled(EmptyStats)),
     img |-> LogOf(NotCalled(<<>>)), imgId |-> None, click |-> NoClick,
     pressed |-> FALSE, selBefore |-> None, selShown |-> None, pending |-> {}]

\* locations = get_raspberry_locations(), taking dl seconds when it fetches.
FetchLocations(c, p, rl, dl) ==
    LET L == cache_data(c.loc, p.loc, TTL_LOCATIONS, get_raspberry_locations(rl), rl.kind)
        d == IF L.requested THEN dl ELSE 0
    IN  [call |-> L,
         cache |-> [Elapse(c, d) EXCEPT !.loc = L.entry],
         prior |-> [ElapsePrior(p, d) EXCEPT !.loc = L.prior]]

\* stats = get_statistics()
FetchStatistics(c, p, rs, ds) ==
    LET S == cache_data(c.stats, p.stats, TTL_STATISTICS, get_statistics(rs), rs.kind)
        d == IF S.requested THEN ds ELSE 0
    IN  [call |-> S,
         cache |-> [Elapse(c, d) EXCEPT !.stats = S.entry],
         prior |-> [ElapsePrior(p, d) EXCEPT !.stats = S.prior]]

\* images = get_raspberry_images(selected, 3), then the image grid, whose
\* downloads take dg seconds when there are images.
FetchImages(c, p, id, ri, di, dg) ==
    LET I == cache_data(c.img[id], p.img[id], TTL_IMAGES, get_raspberry_images(ri), ri.kind)
        d == IF I.requested THEN di ELSE 0
        g == IF I.value # <<>> THEN dg ELSE 0
    IN  [call |-> I,
         cache |-> Elapse([Elapse(c, d) EXCEPT !.img[id] = I.entry], g),
         prior |-> ElapsePrior([ElapsePrior(p, d) EXCEPT !.img[id] = I.prior], g)]

\* Whether the render reaches the map, the selection block and the image call,
\* given what the earlier steps produced.
MapShown(locations) == locations # <<>>

BlockOpen(locations, sel) == locations # <<>> /\ Truthy(sel)

PanelShown(locations, sel) ==
    BlockOpen(locations, sel) /\ SelectedInfo(locations, sel) # None

\* The images step when the panel is not shown or images are switched off.
SkipImages(c, p) == [call |-> NotCalled(<<>>), cache |-> c, prior |-> p]

\* What main_dashboard leaves on the page, from the fetched locations, stats and
\* images (callI: whether the image call was made), the selection after the
\* click was resolved and the button result.
Page(locations, stats, images, callI, sel1, pressed) ==
    [alerts   |-> Alerts(locations),
     notice   |-> locations = <<>>,
     metrics  |-> IF locations = <<>> THEN NoMetrics ELSE Metrics(locations, stats),
     map      |-> MapShown(locations),
     panel    |-> PanelShown(locations, sel1),
     gallery  |-> IF callI THEN Len(images) ELSE 0,
     noImages |-> callI /\ images = <<>>,
     button   |-> BlockOpen(locations, sel1),
     chart    |-> locations # <<>> /\ ~pressed]

\* ------------------------------------------------------------------ state
VARIABLES
    pc,                 \* "start": the script is about to run from its top;
                        \* "render": about to call main_dashboard;
                        \* "tick": in the loop, after main_dashboard;
                        \* "done": the script ended (auto-refresh off)
    auto_refresh,       \* the sidebar checkbox
    show_images,        \* the sidebar checkbox
    selected_raspberry, \* st.session_state.selected_raspberry, or NoKey
    counter,            \* the loop's refresh counter
    cache,              \* st.cache_data entries
    view,               \* what the last main_dashboard rendered
    prior,              \* history: per cache key, the call that last fetched
    log,                \* history: the calls and inputs of the last main_dashboard
    clears              \* history: cache clears fired by the running loop

vars == << pc, auto_refresh, show_images, selected_raspberry, counter, cache, view,
           prior, log, clears >>

Init ==
    /\ pc = "start"
    /\ auto_refresh = TRUE
    /\ show_images = TRUE
    /\ selected_raspberry = NoKey
    /\ counter = 0
    /\ cache = EmptyCache
    /\ view = NoView
    /\ prior = EmptyPrior
    /\ log = NoLog
    /\ clears = 0

\* The top level of the script, run on every (re)run: the session state gets
\* its key on the first run, and the loop's counter starts at 0.
ScriptStart ==
    /\ pc = "start"
    /\ selected_raspberry' = InitSelection(selected_raspberry)
    /\ counter' = 0
    /\ clears' = 0
    /\ log' = NoLog
    /\ pc' = "render"
    /\ UNCHANGED << auto_refresh, show_images, cache, view, prior >>

\* The inputs a fetch can see: none on a cache hit.
Hit(default) == { [kind |-> "hit", body |-> default] }

LocationInputs(P) ==
    IF Fresh(cache.loc, TTL_LOCATIONS) THEN Hit(<<>>) ELSE Responses(P, P.lists, <<>>)

StatisticsInputs(P, c) ==
    IF Fresh(c.stats, TTL_STATISTICS) THEN Hit(EmptyStats)
    ELSE Responses(P, P.stats, EmptyStats)

ImageInputs(P, c, called, id) ==
    IF ~called THEN Hit(<<>>)
    ELSE IF Fresh(c.img[id], TTL_IMAGES) THEN Hit(<<>>)
    ELSE Responses(P, P.images, <<>>)

Durations(P, r) == IF r.kind = "hit" THEN {0} ELSE P.durs

\* One call of main_dashboard, on inputs drawn from P: the responses rl, rs, ri
\* a fetch gets and the seconds dl, ds, di it takes, the seconds dg the image
\* grid takes, the click st_folium reports and what st.button returns.  A pressed
\* button ends in st.rerun(); otherwise the script goes on to `next`.
main_dashboard(P, next) ==
    /\ pc = "render"
    /\ \E rl \in LocationInputs(P) : \E dl \in Durations(P, rl) :
       \E FL \in { FetchLocations(cache, prior, rl, dl) } :
       \E rs \in StatisticsInputs(P, FL.cache) : \E ds \in Durations(P, rs) :
       \E FS \in { FetchStatistics(FL.cache, FL.prior, rs, ds) } :
       \E click \in IF MapShown(FL.call.value) THEN P.clicks ELSE { NoClick } :
       \E sel1 \in { IF FL.call.value = <<>> THEN selected_raspberry
                     ELSE ResolveClick(selected_raspberry, FL.call.value, click) } :
       \E callI \in { PanelShown(FL.call.value, sel1) /\ show_images } :
       \E ri \in ImageInputs(P, FS.cache, callI, sel1) : \E di \in Durations(P, ri) :
       \E dg \in IF callI THEN P.durs ELSE {0} :
       \E FI \in { IF callI THEN FetchImages(FS.cache, FS.prior, sel1, ri, di, dg)
                   ELSE SkipImages(FS.cache, FS.prior) } :
       \E pressed \in IF BlockOpen(FL.call.value, sel1) THEN BOOLEAN ELSE { FALSE } :
         /\ cache' = FI.cache
         /\ prior' = FI.prior
         /\ selected_raspberry' = IF pressed THEN ClearSelection(sel1) ELSE sel1
         /\ view' = Page(FL.call.value, FS.call.value, FI.call.value, callI, sel1, pressed)
         /\ log' = [loc |-> LogOf(FL.call), stats |-> LogOf(FS.call), img |-> LogOf(FI.call),
                    imgId |-> IF callI THEN sel1 ELSE None,
                    click |-> click, pressed |-> pressed,
                    selBefore |-> selected_raspberry, selShown |-> sel1,
                    pending |-> FailedKeys(log)]
         /\ pc' = IF pressed THEN "start" ELSE next
    /\ UNCHANGED << auto_refresh, show_images, counter, clears >>

\* with placeholder.container(): main_dashboard()   (inside while True)
LoopRender(P) == auto_refresh /\ main_dashboard(P, "tick")

\* else: main_dashboard(), and the script ends.
OnceRender(P) == ~auto_refresh /\ main_dashboard(P, "done")

\* The test made on the counter before its increment.
ClearDueBefore(n) == (n - 1) % CLEAR_EVERY = 0

\* if counter % 10 == 0
ClearDue(n) == n % CLEAR_EVERY = 0

\* The rest of one loop iteration: counter += 1; time.sleep(10);
\* if counter % 10 == 0: st.cache_data.clear()
Tick(P) ==
    /\ pc = "tick"
    /\ counter < P.maxCounter
    /\ counter' = counter + 1
    /\ LET c == Elapse(cache, SLEEP_SECONDS)
           p == ElapsePrior(prior, SLEEP_SECONDS)
       IN  IF ClearDue(counter')
           THEN cache' = EmptyCache /\ prior' = ClearPrior(p) /\ clears' = clears + 1
           ELSE cache' = c /\ prior' = p /\ clears' = clears
    /\ pc' = "render"
    /\ UNCHANGED << auto_refresh, show_images, selected_raspberry, view, log >>

\* The user changes a sidebar widget (or reloads by hand once the script has
\* ended) after w seconds: the script runs again from its top with the new
\* widget values; session state and cache persist.
UserRerun(P) ==
    /\ pc \in {"tick", "done"}
    /\ \E a \in BOOLEAN, s \in BOOLEAN, w \in P.waits :
         /\ auto_refresh' = a
         /\ show_images' = s
         /\ cache' = Elapse(cache, w)
         /\ prior' = ElapsePrior(prior, w)
    /\ pc' = "start"
    /\ UNCHANGED << selected_raspberry, counter, view, log, clears >>

\* ---------------------------------------------------------- specifications
\* The view: every device list, no time spent in fetches.
ViewInputs ==
    [lists |-> DeviceLists(MaxDevices), stats |-> StatsBodies, images |-> ImageBodies,
     fails |-> FailKinds, durs |-> {0}, waits |-> {0},
     clicks |-> Clicks, maxCounter |-> MaxViewCounter]

\* The cache and the loop: one short device list, fetches that answer at once
\* or run into the timeout, and the counter past two cache clears.
CacheInputs ==
    [lists |-> { << Device(1, "San Isidro", 1, 0, "online", 2) >> },
     stats |-> StatsBodies, images |-> ImageBodies, fails |-> { "neterr" },
     durs |-> {0, TIMEOUT}, waits |-> {0, TIMEOUT, TTL_STATISTICS},
     clicks |-> { NoClick, [some |-> TRUE, lat |-> 1, lng |-> 0] },
     maxCounter |-> MaxCounter]

Next ==
    \/ ScriptStart
    \/ LoopRender(ViewInputs)
    \/ OnceRender(ViewInputs)
    \/ Tick(ViewInputs)
    \/ UserRerun(ViewInputs)

Spec == Init /\ [][Next]_vars

NextCache ==
    \/ ScriptStart
    \/ LoopRender(CacheInputs)
    \/ OnceRender(CacheInputs)
    \/ Tick(CacheInputs)
    \/ UserRerun(CacheInputs)

SpecCache == Init /\ [][NextCache]_vars

\* ------------------------------------------------------------------ claims
Locations == log.loc.value

\* The devices of the fetched list within the tolerance of the clicked point.
Matches ==
    { i \in DOMAIN Locations :
        /\ Locations[i].latitude - log.click.lat \in (1 - TOLERANCE)..(TOLERANCE - 1)
        /\ Locations[i].longitude - log.click.lng \in (1 - TOLERANCE)..(TOLERANCE - 1) }

First(S) == CHOOSE i \in S : \A j \in S : i <= j

\* A call was made less than ttl after a prior call with these arguments, the
\* one that fetched.
WithinTtl(l, ttl) == l.called /\ l.before.called /\ l.before.fetchSince < ttl

\* The call issued no request and returned what the prior call returned.
ServedFromCache(l) == ~l.requested /\ l.value = l.before.value

\* C1 as stated: for each of the three cached functions, a call made less than
\* the TTL after a prior call with the same arguments issues no request and
\* returns the prior call's result, also when the loop cleared the cache between
\* the two calls.
C1_WithinTtl ==
    /\ WithinTtl(log.loc, TTL_LOCATIONS) => ServedFromCache(log.loc)
    /\ WithinTtl(log.stats, TTL_STATISTICS) => ServedFromCache(log.stats)
    /\ WithinTtl(log.img, TTL_IMAGES) => ServedFromCache(log.img)

\* C1 as amended: for each of the three cached functions, a call made less than
\* the TTL after the call with the same arguments that fetched, with no cache
\* clear in between, issues no request and returns that call's result.
C1_WithinTtlNoClear ==
    /\ (WithinTtl(log.loc, TTL_LOCATIONS) /\ ~log.loc.before.cleared)
          => ServedFromCache(log.loc)
    /\ (WithinTtl(log.stats, TTL_STATISTICS) /\ ~log.stats.before.cleared)
          => ServedFromCache(log.stats)
    /\ (WithinTtl(log.img, TTL_IMAGES) /\ ~log.img.before.cleared)
          => ServedFromCache(log.img)

\* A loop cycle whose statistics call, one sleep after the fetch, is a hit.
C1_Witness ==
    /\ counter >= 1
    /\ WithinTtl(log.stats, TTL_STATISTICS) /\ ~log.stats.before.cleared
    /\ log.stats.before.fetchSince >= SLEEP_SECONDS
    /\ log.stats.value = FullStats
    /\ ~log.stats.requested

\* C2: in a run of the loop, the cache clear has fired once per completed
\* multiple of 10 of the counter: never during cycles 1..9 (and not at 0), once
\* at cycle 10, twice at cycle 20.
C2_ClearEveryTenth == clears = counter \div CLEAR_EVERY

\* The tenth cycle has just cleared the cache, for the first time.
C2_Witness == counter = CLEAR_EVERY /\ clears = 1 /\ pc = "render" /\ cache = EmptyCache

C4_FailureLastsOneCycle ==
    /\ ~cache.loc.failed /\ ~cache.stats.failed /\ \A i \in Ids : ~cache.img[i].failed
    /\ (<<"locations", None>> \in log.pending /\ log.loc.called) => log.loc.requested
    /\ (<<"statistics", None>> \in log.pending /\ log.stats.called) => log.stats.requested
    /\ (<<"images", log.imgId>> \in log.pending /\ log.img.called) => log.img.requested

\* C5 as stated: whatever way a fetch fails (status other than 200, network
\* failure, unusable body), the function emits a warning and returns its
\* empty default.
C5_FailSoft ==
    /\ log.loc.failed => (log.loc.warned /\ log.loc.value = <<>>)
    /\ log.stats.failed => (log.stats.warned /\ log.stats.value = EmptyStats)
    /\ log.img.failed => (log.img.warned /\ log.img.value = <<>>)

\* C6 as stated: a failed fetch degrades only its own sections: with the
\* locations fetch failed the metrics strip is still rendered, and with the
\* image fetch failed the map and the metrics are.
C6_FailureIsolation ==
    /\ log.loc.failed => view.metrics.shown
    /\ log.img.failed => (view.map /\ view.metrics.shown)
    /\ log.stats.failed => (view.map <=> Locations # <<>>)

\* C7 as stated: a render shows the detail panel exactly when the selection is
\* set and a device with that identifier is in the fetched list.
C7_PanelIff ==
    log.loc.called =>
        (view.panel <=>
            /\ log.selShown # None
            /\ \E i \in DOMAIN Locations : Locations[i].raspberry_id = log.selShown)

C9_ClearYieldsNone == log.pressed => selected_raspberry = None

\* The button was pressed while device 2 was selected.
C9_Witness == log.pressed /\ log.selShown = 2 /\ selected_raspberry = None

\* C10: a render shows as many alerts as devices with total_detections > 0:
\* one for each such device and none for a device with total_detections = 0.
C10_AlertPerDetection ==
    log.loc.called =>
        /\ Len(view.alerts) =
             Cardinality({ i \in DOMAIN Locations : Locations[i].total_detections > 0 })
        /\ \A i \in DOMAIN Locations :
             Cardinality({ j \in DOMAIN view.alerts : view.alerts[j] = Locations[i].location })
               = IF Locations[i].total_detections > 0 THEN 1 ELSE 0

\* A list with a device to alert on and one not to.
C10_Witness ==
    /\ log.loc.called /\ Len(view.alerts) = 1
    /\ \E i, j \in DOMAIN Locations :
         Locations[i].total_detections > 0 /\ Locations[j].total_detections = 0

====
